---- MODULE Spec2Model ----
(***************************************************************************)
(* Model of Sweeper.py: a sequential sweep over AWS profiles, checks and   *)
(* regions.  One run of the program is one behaviour: the constructor      *)
(* (set_config_file, set_output, load_file, set_profile, run_sweeper), the *)
(* profile loop of run_checks, and one step per iteration of the region    *)
(* loop of each check.  The provider (its responses, its access-denied     *)
(* answers, the profiles it does not know) is the environment.             *)
(***************************************************************************)
EXTENDS Integers, Sequences, FiniteSets, TLC

(***************************************************************************)
(* Bounds of the model.                                                    *)
(***************************************************************************)
\* how many of the regions of self.regions the model keeps
NumRegions == 2
\* how many queries of one run the provider may answer with access denied
MaxFaults == 1
\* longest resource list (and block-device mapping list) of a response
MaxItems == 2

(***************************************************************************)
(* Program constants.                                                      *)
(***************************************************************************)
AllRegions ==
  << "us-east-1", "us-east-2", "us-west-1", "us-west-2", "ca-central-1",
     "ap-south-1", "ap-northeast-1", "ap-northeast-2", "ap-southeast-1",
     "ap-southeast-2", "eu-central-1", "eu-west-1", "eu-west-2", "sa-east-1" >>

\* self.regions as __init__ sets it (cut to the first NumRegions entries)
DefaultRegions == SubSeq(AllRegions, 1, NumRegions)

\* the names run_checks tests against checks_to_exclude, in call order
CheckNames ==
  << "elb", "ebs-volumes", "ebs-snapshots", "ec2-eips", "elastic-beanstalk",
     "opsworks", "rds-snapshots" >>

NoCheck == Len(CheckNames) + 1

(***************************************************************************)
(* Plain helpers: Python's list and str operations.                        *)
(***************************************************************************)
Range(s) == { s[i] : i \in DOMAIN s }

\* x in list
In(x, s) == \E i \in DOMAIN s : s[i] = x

\* list.remove(x): drops the first occurrence
RECURSIVE Remove(_, _)
RemoveKeepAll(s, x) == s
Remove(s, x) ==
  IF s = <<>> THEN <<>>
  ELSE IF Head(s) = x THEN Tail(s)
  ELSE <<Head(s)>> \o Remove(Tail(s), x)

\* str.split(','): a str is a sequence of characters
RECURSIVE Split(_)
SplitKeepsWhole(s) == << s >>
Split(s) ==
  IF \A i \in DOMAIN s : s[i] # ","
    THEN <<s>>
    ELSE LET k == CHOOSE i \in DOMAIN s :
                    s[i] = "," /\ \A j \in 1..(i - 1) : s[j] # ","
         IN  <<SubSeq(s, 1, k - 1)>> \o Split(SubSeq(s, k + 1, Len(s)))

\* all sequences over S of length at most n
SeqsUpTo(S, n) == UNION { [1..k -> S] : k \in 0..n }

RECURSIVE Flatten(_)
Flatten(pages) ==
  IF pages = <<>> THEN <<>> ELSE Head(pages) \o Flatten(Tail(pages))

(***************************************************************************)
(* Values handed to the output sink: a str, or an exception object.        *)
(***************************************************************************)
Line(k, c, r, n, m, p) ==
  [str |-> TRUE, k |-> k, c |-> c, r |-> r, n |-> n, m |-> m, p |-> p]

Text(k, c, r) == Line(k, c, r, 0, 0, <<>>)

\* the ClientError instance bound to err in a check's except clause
ErrObject(c, r) ==
  [str |-> FALSE, k |-> "ClientError", c |-> c, r |-> r, n |-> 0, m |-> 0,
   p |-> <<>>]

\* str(x), as print applies it
ToStr(v) == [v EXCEPT !.str = TRUE]

NoArg == "none"

VARIABLES
  args,             \* OPTS: "-c", "-p", "-o"
  files,            \* which configuration files can be read
  params,           \* what yaml.load returns for a readable configuration file
  environ_set,      \* both AWS_ACCESS_KEY_ID and AWS_SECRET_ACCESS_KEY are set
  creds_file,       \* ~/.aws/credentials can be opened
  unknown_profiles, \* profiles boto3 raises ProfileNotFound for
  world,            \* what the provider's list calls return
  faults_left,      \* access-denied answers the provider may still give
  profile_list, current_profile, regions, checks_to_exclude,
  config_location, output_file, message,
  stdout,           \* what print wrote
  file,             \* what was written to the -o file
  writes,           \* number of writes of the -o file
  pc, pi, ci, ri,   \* position: step, profile index, check index, region index
  rds_data,         \* locals snapshots and instances of check_rds_snapshots
  emitted,          \* history: every value passed to output
  queries,          \* history: every provider call issued
  raised            \* history: every exception raised

vars ==
  << args, files, params, environ_set, creds_file, unknown_profiles, world,
     faults_left, profile_list, current_profile, regions, checks_to_exclude,
     config_location, output_file, message, stdout, file, writes, pc, pi, ci,
     ri, rds_data, emitted, queries, raised >>

env_vars ==
  << args, files, params, environ_set, creds_file, unknown_profiles, world >>


(***************************************************************************)
(* The interpreter state one handler threads through its statements: the   *)
(* report, the histories, and the exception in flight (exc).  A statement  *)
(* does nothing once an exception is in flight.                            *)
(***************************************************************************)
IO(deny) ==
  [ message |-> message, stdout |-> stdout, emitted |-> emitted,
    queries |-> queries, raised |-> raised, rds |-> rds_data,
    exc |-> "none", ncalls |-> 0, deny |-> deny ]

Raise(io, exc, where, c, r) ==
  [ io EXCEPT !.exc = exc,
              !.raised = Append(@, [ exc |-> exc, where |-> where, i |-> pi,
                                     c |-> c, r |-> r ]) ]

\* print(string)
print(io, string) ==
  IF io.exc # "none" THEN io
  ELSE [ io EXCEPT !.stdout = Append(@, ToStr(string)) ]

\* Sweeper.output: self.message += string raises TypeError unless string is a str
output(io, string) ==
  IF io.exc # "none" THEN io
  ELSE LET e == [ io EXCEPT !.emitted = Append(@, string) ]
       IN  IF output_file
             THEN IF string.str
                    THEN [ e EXCEPT !.message = Append(@, string) ]
                    ELSE Raise(e, "TypeError", "output", string.c, string.r)
             ELSE print(e, string)

RECURSIVE outputs(_, _)
outputs(io, strings) ==
  IF strings = <<>> THEN io
  ELSE outputs(output(io, Head(strings)), Tail(strings))

\* Sweeper.create_client: boto3.Session(profile_name=...) raises ProfileNotFound
create_client(io, c, region) ==
  IF io.exc # "none" THEN io
  ELSE IF current_profile # <<>> /\ current_profile \in unknown_profiles
    THEN Raise(io, "ProfileNotFound", "create_client", c, region)
    ELSE io

\* one provider call of a client: issued, and answered or denied (ClientError)
Call(io, c, region, op) ==
  IF io.exc # "none" THEN io
  ELSE LET n == io.ncalls + 1
           q == [ i |-> pi, p |-> current_profile, c |-> c, r |-> region,
                  op |-> op ]
           io1 == [ io EXCEPT !.ncalls = n, !.queries = Append(@, q) ]
       IN  IF n = io.deny
             THEN Raise(io1, "ClientError", "query", c, region)
             ELSE io1

(***************************************************************************)
(* check_elbs: one iteration of its region loop.                           *)
(***************************************************************************)
\* not elb['Instances'], for an elb that has the key
elb_unattached_any(elb) == TRUE
elb_unattached(elb) == elb.Instances = "empty"

RECURSIVE elb_loop(_, _, _)
elb_loop(io, elbs, region) ==
  IF elbs = <<>> \/ io.exc # "none" THEN io
  ELSE LET elb == Head(elbs)
           io1 == IF elb.Instances = "absent"
                    THEN Raise(io, "KeyError", "subscript", "elb", region)
                    ELSE IF elb_unattached(elb)
                      THEN output(io, Line("item", "elb", region,
                                           elb.LoadBalancerName, 0, <<>>))
                      ELSE io
       IN  elb_loop(io1, Tail(elbs), region)

elbs_body(io, region) ==
  LET io1 == create_client(io, "elb", region)
      io2 == outputs(io1, << Text("banner", "elb", region),
                             Text("about", "elb", region),
                             Text("rule", "elb", region) >>)
      io3 == Call(io2, "elb", region, "describe_load_balancers")
      io4 == elb_loop(io3, world.elbs, region)
  IN  outputs(io4, << Text("complete", "elb", region),
                      Text("all-checked", "elb", region) >>)

(***************************************************************************)
(* check_ebs_volumes                                                       *)
(***************************************************************************)
\* not volume['Attachments'], for a volume that has the key
volume_unattached(volume) == volume.Attachments = "empty"

RECURSIVE volume_loop(_, _, _)
volume_loop(io, volumes, region) ==
  IF volumes = <<>> \/ io.exc # "none" THEN io
  ELSE LET volume == Head(volumes)
           io1 == IF volume.Attachments = "absent"
                    THEN Raise(io, "KeyError", "subscript", "ebs-volumes", region)
                    ELSE IF volume_unattached(volume)
                      THEN output(io, Line("item", "ebs-volumes", region,
                                           volume.VolumeId, 0, <<>>))
                      ELSE io
       IN  volume_loop(io1, Tail(volumes), region)

ebs_volumes_body(io, region) ==
  LET io1 == outputs(io, << Text("banner", "ebs-volumes", region),
                            Text("rule", "ebs-volumes", region) >>)
      io2 == create_client(io1, "ebs-volumes", region)
      io3 == Call(io2, "ebs-volumes", region, "describe_volumes")
      io4 == volume_loop(io3, world.volumes, region)
  IN  outputs(io4, << Text("complete", "ebs-volumes", region),
                      Text("all-checked", "ebs-volumes", region) >>)

(***************************************************************************)
(* check_snapshots                                                         *)
(***************************************************************************)
\* for mapping in image['BlockDeviceMappings']: ... found = True; break
RECURSIVE mapping_loop(_, _, _)
mapping_loop(mappings, snapshot_id, snapshot_found) ==
  IF mappings = <<>> THEN snapshot_found
  ELSE LET mapping == Head(mappings)
       IN  IF mapping.Ebs /\ mapping.HasSnapshotId
              /\ mapping.SnapshotId = snapshot_id
             THEN TRUE
             ELSE mapping_loop(Tail(mappings), snapshot_id, snapshot_found)

\* the body of "for image in images['Images']": snapshot_found after the image
scan_image_last_wins(image, snapshot_id, snapshot_found) ==
  image.HasMappings /\ mapping_loop(image.BlockDeviceMappings, snapshot_id, FALSE)
scan_image(image, snapshot_id, snapshot_found) ==
  IF image.HasMappings
    THEN mapping_loop(image.BlockDeviceMappings, snapshot_id, snapshot_found)
    ELSE snapshot_found

RECURSIVE image_loop(_, _, _)
image_loop(images, snapshot_id, snapshot_found) ==
  IF images = <<>> THEN snapshot_found
  ELSE image_loop(Tail(images), snapshot_id,
                  scan_image(Head(images), snapshot_id, snapshot_found))

\* for snapshot in snapshots['Snapshots']: builds snapshot_list
RECURSIVE snapshot_loop(_, _, _)
snapshot_loop(snapshots, images, snapshot_list) ==
  IF snapshots = <<>> THEN snapshot_list
  ELSE LET snapshot_id == Head(snapshots)
           snapshot_found == image_loop(images, snapshot_id, FALSE)
       IN  snapshot_loop(Tail(snapshots), images,
                         IF ~snapshot_found
                           THEN Append(snapshot_list, snapshot_id)
                           ELSE snapshot_list)

RECURSIVE snap_lines(_, _)
snap_lines(snapshot_list, region) ==
  IF snapshot_list = <<>> THEN <<>>
  ELSE << Line("snap", "ebs-snapshots", region, Head(snapshot_list), 0, <<>>) >>
       \o snap_lines(Tail(snapshot_list), region)

snapshots_body(io, region) ==
  LET io1 == outputs(io, << Text("banner", "ebs-snapshots", region),
                            Text("warning", "ebs-snapshots", region),
                            Text("rule", "ebs-snapshots", region) >>)
      io2 == create_client(io1, "ebs-snapshots", region)
      io3 == Call(io2, "ebs-snapshots", region, "describe_snapshots")
      io4 == Call(io3, "ebs-snapshots", region, "describe_images")
      snapshot_list == snapshot_loop(world.snapshots, world.images, <<>>)
      io5 == output(io4, Line("count", "ebs-snapshots", region,
                              Len(snapshot_list), 0, <<>>))
      io6 == IF output_file THEN outputs(io5, snap_lines(snapshot_list, region))
             ELSE io5
  IN  output(io6, Text("complete", "ebs-snapshots", region))

(***************************************************************************)
(* check_eips                                                              *)
(***************************************************************************)
\* 'InstanceId' not in address
eip_unattached(address) == address.InstanceId = "absent"

RECURSIVE eip_loop(_, _, _)
eip_loop(io, addresses, region) ==
  IF addresses = <<>> \/ io.exc # "none" THEN io
  ELSE LET address == Head(addresses)
           io1 == IF eip_unattached(address)
                    THEN output(io, Line("item", "ec2-eips", region,
                                         address.PublicIp, 0, <<>>))
                    ELSE io
       IN  eip_loop(io1, Tail(addresses), region)

eips_complete_twice(region) ==
  << Text("complete", "ec2-eips", region), Text("complete", "ec2-eips", region) >>
eips_complete(region) == << Text("complete", "ec2-eips", region) >>

eips_body(io, region) ==
  LET io1 == outputs(io, << Text("banner", "ec2-eips", region),
                            Text("rule", "ec2-eips", region) >>)
      io2 == create_client(io1, "ec2-eips", region)
      io3 == Call(io2, "ec2-eips", region, "describe_addresses")
      io4 == eip_loop(io3, world.addresses, region)
  IN  outputs(io4, eips_complete(region))

(***************************************************************************)
(* check_beanstalk_environments                                            *)
(***************************************************************************)
RECURSIVE environment_lines(_, _)
environment_lines(environments, region) ==
  IF environments = <<>> THEN <<>>
  ELSE << Line("item", "elastic-beanstalk", region, Head(environments), 0, <<>>) >>
       \o environment_lines(Tail(environments), region)

beanstalk_body(io, region) ==
  LET io1 == outputs(io, << Text("banner", "elastic-beanstalk", region),
                            Text("about", "elastic-beanstalk", region),
                            Text("rule", "elastic-beanstalk", region) >>)
      io2 == create_client(io1, "elastic-beanstalk", region)
      io3 == Call(io2, "elastic-beanstalk", region, "describe_environments")
      io4 == outputs(io3, environment_lines(world.environments, region))
  IN  output(io4, Text("complete", "elastic-beanstalk", region))

(***************************************************************************)
(* check_opsworks                                                          *)
(***************************************************************************)
\* the six describe calls made per stack, with the line each one reports
StackCalls ==
  << [ op |-> "describe_ecs_clusters", k |-> "ecs" ],
     [ op |-> "describe_elastic_ips", k |-> "eip" ],
     [ op |-> "describe_instances", k |-> "ec2" ],
     [ op |-> "describe_elastic_load_balancers", k |-> "elb" ],
     [ op |-> "describe_rds_db_instances", k |-> "rds" ],
     [ op |-> "describe_volumes", k |-> "ebs" ] >>

RECURSIVE stack_calls(_, _, _, _)
stack_calls(io, stack, region, n) ==
  IF n > Len(StackCalls) THEN io
  ELSE LET io1 == Call(io, "opsworks", region, StackCalls[n].op)
           io2 == output(io1, Line(StackCalls[n].k, "opsworks", region,
                                   stack.StackId, stack.counts[n], <<>>))
       IN  stack_calls(io2, stack, region, n + 1)

RECURSIVE stack_loop(_, _, _)
stack_loop(io, stacks, region) ==
  IF stacks = <<>> \/ io.exc # "none" THEN io
  ELSE LET stack == Head(stacks)
           io1 == output(io, Line("stack", "opsworks", region, stack.StackId,
                                  0, <<>>))
       IN  stack_loop(stack_calls(io1, stack, region, 1), Tail(stacks), region)

opsworks_body(io, region) ==
  LET io1 == outputs(io, << Text("banner", "opsworks", region),
                            Text("about", "opsworks", region),
                            Text("about2", "opsworks", region),
                            Text("rule", "opsworks", region) >>)
      io2 == create_client(io1, "opsworks", region)
      io3 == Call(io2, "opsworks", region, "describe_stacks")
      io4 == stack_loop(io3, world.stacks, region)
  IN  output(io4, Text("complete", "opsworks", region))


(***************************************************************************)
(* check_rds_snapshots                                                     *)
(***************************************************************************)
\* a bound method of the client (callable), or the client itself (not callable)
Method(op, pages) == [ callable |-> TRUE, op |-> op, pages |-> pages ]
Client == [ callable |-> FALSE, op |-> "client", pages |-> <<>> ]

\* what function(Marker=marker) returns; marker 0 is None (function())
Response(pages, marker) ==
  [ items |-> pages[marker + 1],
    Marker |-> IF marker + 1 < Len(pages) THEN marker + 1 ELSE 0 ]

\* get_data(function, key, marker): the result is [io, val]; the recursive
\* call passes client where function was received
RECURSIVE get_data(_, _, _, _)
get_data(io, function, marker, region) ==
  IF io.exc # "none" THEN [ io |-> io, val |-> <<>> ]
  ELSE IF ~function.callable
    THEN [ io |-> Raise(io, "TypeError", "get_data", "rds-snapshots", region),
           val |-> <<>> ]
    ELSE LET io1 == Call(io, "rds-snapshots", region, function.op)
             response == Response(function.pages, marker)
         IN  IF io1.exc # "none" THEN [ io |-> io1, val |-> <<>> ]
             ELSE IF response.Marker # 0
               THEN LET rest == get_data(io1, Client, response.Marker, region)
                    IN  [ io |-> rest.io, val |-> response.items \o rest.val ]
               ELSE [ io |-> io1, val |-> response.items ]

\* for instance in instances: ... found = True; break
RECURSIVE instance_loop(_, _)
instance_loop(instances, snapshot) ==
  IF instances = <<>> THEN FALSE
  ELSE IF Head(instances).DBInstanceIdentifier = snapshot.DBInstanceIdentifier
    THEN TRUE
    ELSE instance_loop(Tail(instances), snapshot)

RECURSIVE rds_loop(_, _, _, _)
rds_loop(io, snapshots, instances, region) ==
  IF snapshots = <<>> \/ io.exc # "none" THEN io
  ELSE LET snapshot == Head(snapshots)
           io1 == IF ~instance_loop(instances, snapshot)
                    THEN output(io, Line("item", "rds-snapshots", region,
                                         snapshot.DBSnapshotIdentifier, 0, <<>>))
                    ELSE io
       IN  rds_loop(io1, Tail(snapshots), instances, region)

rds_snapshots_body(io, region) ==
  LET io1 == outputs(io, << Text("banner", "rds-snapshots", region),
                            Text("rule", "rds-snapshots", region) >>)
      io2 == create_client(io1, "rds-snapshots", region)
      s == get_data(io2, Method("describe_db_snapshots", world.rds_snapshots),
                    0, region)
      io3 == IF s.io.exc = "none"
               THEN [ s.io EXCEPT !.rds = [ @ EXCEPT !.snapshots = s.val,
                                                     !.have_snapshots = TRUE ] ]
               ELSE s.io
      t == get_data(io3, Method("describe_db_instances", world.rds_instances),
                    0, region)
      io4 == IF t.io.exc = "none"
               THEN [ t.io EXCEPT !.rds = [ @ EXCEPT !.instances = t.val,
                                                     !.have_instances = TRUE ] ]
               ELSE t.io
      io5 == rds_loop(io4, s.val, t.val, region)
  IN  output(io5, Text("complete", "rds-snapshots", region))

\* the locals of check_rds_snapshots when an iteration of its loop starts
RdsStart ==
  [ ran |-> TRUE, have_snapshots |-> FALSE, snapshots |-> <<>>,
    have_instances |-> FALSE, instances |-> <<>> ]

RdsNone == [ RdsStart EXCEPT !.ran = FALSE ]

(***************************************************************************)
(* run_checks: where control goes.                                         *)
(***************************************************************************)
Position(p, i, c, r) == [ pc |-> p, pi |-> i, ci |-> c, ri |-> r ]

\* 'name' not in self.checks_to_exclude
Enabled(c) == ~In(CheckNames[c], checks_to_exclude)

\* the first check at or after c that run_checks calls
FirstEnabledFrom(c) ==
  IF \E k \in c..Len(CheckNames) : Enabled(k)
    THEN CHOOSE k \in c..Len(CheckNames) :
           Enabled(k) /\ \A j \in c..(k - 1) : ~Enabled(j)
    ELSE NoCheck

\* the for loop of run_checks takes the next profile, or run_checks returns
NextProfile(i) ==
  IF i + 1 > Len(profile_list) THEN Position("finish", i + 1, 0, 0)
  ELSE Position("run_checks", i + 1, 0, 0)

\* a check returned: the next check run_checks calls, or the next profile
AfterCheck(i, c) ==
  IF FirstEnabledFrom(c + 1) = NoCheck
    THEN NextProfile(i)
    ELSE Position("check", i, FirstEnabledFrom(c + 1), 1)

\* an iteration of a check's region loop ended normally
AfterRegion(i, c, r) ==
  IF r < Len(regions) THEN Position("check", i, c, r + 1) ELSE AfterCheck(i, c)

\* the try of every check encloses its region loop: after the except clause
\* the check returns
ClientErrorResumesLoop(i, c, r) == AfterRegion(i, c, r)
AfterClientError(i, c, r) == AfterCheck(i, c)

\* the try of run_checks is inside its profile loop
ProfileNotFoundEndsRun(i) == Position("finish", i, 0, 0)
AfterProfileNotFound(i) == NextProfile(i)

\* the except clauses that take the exception a loop iteration raised
Handled(b, c, region) ==
  IF b.exc = "ClientError"
    THEN outputs([ b EXCEPT !.exc = "none" ],
                 << ErrObject(c, region), Text("no-access", c, region) >>)
  ELSE IF b.exc = "ProfileNotFound"
    THEN output([ b EXCEPT !.exc = "none" ],
                Line("profile-not-found", "run_checks", "", 0, 0, current_profile))
  ELSE b

\* the state after one iteration whose body left the interpreter state b
Commit(b) ==
  LET c == CheckNames[ci]
      h == Handled(b, c, regions[ri])
      to == IF h.exc # "none" THEN Position("crashed", pi, ci, ri)
            ELSE IF b.exc = "ClientError" THEN AfterClientError(pi, ci, ri)
            ELSE IF b.exc = "ProfileNotFound" THEN AfterProfileNotFound(pi)
            ELSE AfterRegion(pi, ci, ri)
  IN  /\ message' = h.message
      /\ stdout' = h.stdout
      /\ emitted' = h.emitted
      /\ queries' = h.queries
      /\ raised' = h.raised
      /\ rds_data' = h.rds
      /\ faults_left' = IF b.exc = "ClientError" THEN faults_left - 1
                        ELSE faults_left
      /\ pc' = to.pc /\ pi' = to.pi /\ ci' = to.ci /\ ri' = to.ri
      /\ UNCHANGED << env_vars, profile_list, current_profile, regions,
                      checks_to_exclude, config_location, output_file, file,
                      writes >>

\* check_rds_snapshots assigns its locals anew in every iteration
RdsBody(io, region) == rds_snapshots_body([ io EXCEPT !.rds = RdsStart ], region)

\* the body of the region loop of the check named name
BodyOf(name, io, region) ==
  IF name = "elb" THEN elbs_body(io, region)
  ELSE IF name = "ebs-volumes" THEN ebs_volumes_body(io, region)
  ELSE IF name = "ebs-snapshots" THEN snapshots_body(io, region)
  ELSE IF name = "ec2-eips" THEN eips_body(io, region)
  ELSE IF name = "elastic-beanstalk" THEN beanstalk_body(io, region)
  ELSE IF name = "opsworks" THEN opsworks_body(io, region)
  ELSE RdsBody(io, region)

\* one iteration of the region loop of the check named name; the provider may
\* deny any one of the calls the iteration makes
Iteration(name) ==
  \E d \in 0..(IF faults_left > 0
                 THEN BodyOf(name, IO(0), regions[ri]).ncalls ELSE 0) :
    Commit(BodyOf(name, IO(d), regions[ri]))

check_elbs ==
  /\ pc = "check"
  /\ CheckNames[ci] = "elb"
  /\ Iteration("elb")

check_ebs_volumes ==
  /\ pc = "check"
  /\ CheckNames[ci] = "ebs-volumes"
  /\ Iteration("ebs-volumes")

check_snapshots ==
  /\ pc = "check"
  /\ CheckNames[ci] = "ebs-snapshots"
  /\ Iteration("ebs-snapshots")

check_eips ==
  /\ pc = "check"
  /\ CheckNames[ci] = "ec2-eips"
  /\ Iteration("ec2-eips")

check_beanstalk_environments ==
  /\ pc = "check"
  /\ CheckNames[ci] = "elastic-beanstalk"
  /\ Iteration("elastic-beanstalk")

check_opsworks ==
  /\ pc = "check"
  /\ CheckNames[ci] = "opsworks"
  /\ Iteration("opsworks")

check_rds_snapshots ==
  /\ pc = "check"
  /\ CheckNames[ci] = "rds-snapshots"
  /\ Iteration("rds-snapshots")

\* run_checks: the head of one iteration of its profile loop
run_checks ==
  /\ pc = "run_checks"
  /\ LET profile == profile_list[pi]
         io == outputs(IO(0), << Text("rule", "run_checks", ""),
                                 Line("sweeping", "run_checks", "", 0, 0, profile),
                                 Text("rule", "run_checks", "") >>)
         to == IF regions = <<>> THEN NextProfile(pi) ELSE AfterCheck(pi, 0)
     IN  /\ message' = io.message
         /\ stdout' = io.stdout
         /\ emitted' = io.emitted
         /\ current_profile' = profile
         /\ pc' = to.pc /\ pi' = to.pi /\ ci' = to.ci /\ ri' = to.ri
  /\ UNCHANGED << env_vars, faults_left, profile_list, regions,
                  checks_to_exclude, config_location, output_file, file, writes,
                  rds_data, queries, raised >>

(***************************************************************************)
(* The constructor.                                                        *)
(***************************************************************************)
DefaultLocation == "./config.yml"

set_config_file ==
  /\ pc = "set_config_file"
  /\ IF args.c # NoArg
       THEN config_location' = args.c /\ stdout' = stdout
       ELSE /\ config_location' = config_location
            /\ stdout' = Append(stdout, Text("WARN-no-config", "", ""))
  /\ pc' = "set_output"
  /\ UNCHANGED << env_vars, faults_left, profile_list, current_profile, regions,
                  checks_to_exclude, output_file, message, file, writes, pi, ci,
                  ri, rds_data, emitted, queries, raised >>

set_output ==
  /\ pc = "set_output"
  /\ output_file' = (args.o # NoArg)
  /\ pc' = "load_file"
  /\ UNCHANGED << env_vars, faults_left, profile_list, current_profile, regions,
                  checks_to_exclude, config_location, message, stdout, file,
                  writes, pi, ci, ri, rds_data, emitted, queries, raised >>

\* for region in params['regions_to_exclude']: if region in self.regions: remove
RECURSIVE exclude_regions(_, _)
exclude_regions(rs, excluded) ==
  IF excluded = <<>> THEN rs
  ELSE exclude_regions(IF In(Head(excluded), rs) THEN Remove(rs, Head(excluded))
                       ELSE rs,
                       Tail(excluded))

\* load_file: the file it ends up reading ("" when it exits), and what it printed
LoadFrom ==
  IF files[config_location] = "ok"
    THEN [ read |-> TRUE, loc |-> config_location, out |-> <<>> ]
  ELSE IF files[config_location] = "malformed"
    THEN [ read |-> FALSE, loc |-> config_location,
           out |-> << Text("yaml-error", "", "") >> ]
  ELSE IF files[DefaultLocation] = "ok"
    THEN [ read |-> TRUE, loc |-> DefaultLocation,
           out |-> << Text("WARN-not-found", "", "") >> ]
  ELSE IF files[DefaultLocation] = "malformed"
    THEN [ read |-> FALSE, loc |-> DefaultLocation,
           out |-> << Text("WARN-not-found", "", ""), Text("yaml-error", "", "") >> ]
  ELSE [ read |-> FALSE, loc |-> DefaultLocation,
         out |-> << Text("WARN-not-found", "", ""),
                    Text("ERROR-no-default", "", "") >> ]

load_file ==
  /\ pc = "load_file"
  /\ config_location' = LoadFrom.loc
  /\ stdout' = stdout \o LoadFrom.out
  /\ IF LoadFrom.read
       THEN /\ regions' = exclude_regions(regions, params.regions_to_exclude)
            /\ checks_to_exclude' = IF params.checks_to_exclude # <<>>
                                      THEN params.checks_to_exclude
                                      ELSE checks_to_exclude
            /\ profile_list' = IF params.profiles # <<>> THEN params.profiles
                               ELSE profile_list
            /\ pc' = "set_profile"
       ELSE /\ UNCHANGED << regions, checks_to_exclude, profile_list >>
            /\ pc' = "exit"
  /\ UNCHANGED << env_vars, faults_left, current_profile, output_file, message,
                  file, writes, pi, ci, ri, rds_data, emitted, queries, raised >>

set_profile ==
  /\ pc = "set_profile"
  /\ IF args.p # NoArg
       THEN LET warn == IF profile_list # <<>>
                          THEN << Text("WARN-override", "", "") >> ELSE <<>>
            IN  IF creds_file
                  THEN /\ profile_list' = IF In(",", args.p) THEN Split(args.p)
                                          ELSE << args.p >>
                       /\ stdout' = stdout \o warn
                       /\ pc' = "run_sweeper"
                  ELSE /\ profile_list' = profile_list
                       /\ stdout' = stdout \o warn
                                    \o << Text("ERROR-no-credentials", "", "") >>
                       /\ pc' = "exit"
     ELSE IF profile_list # <<>>
       THEN /\ profile_list' = profile_list
            /\ stdout' = Append(stdout, Text("INFO-config-profiles", "", ""))
            /\ pc' = "run_sweeper"
     ELSE IF environ_set
       THEN /\ profile_list' = profile_list
            /\ stdout' = Append(stdout, Text("INFO-environment", "", ""))
            /\ pc' = "run_sweeper"
       ELSE /\ profile_list' = profile_list
            /\ stdout' = Append(stdout, Text("ERROR-no-auth", "", ""))
            /\ pc' = "exit"
  /\ UNCHANGED << env_vars, faults_left, current_profile, regions,
                  checks_to_exclude, config_location, output_file, message, file,
                  writes, pi, ci, ri, rds_data, emitted, queries, raised >>

\* run_sweeper up to its call of run_checks
run_sweeper ==
  /\ pc = "run_sweeper"
  /\ LET io == output(print(IO(0), Text("INFO-sweeping", "", "")),
                      Text("time", "run_sweeper", ""))
         to == NextProfile(0)
     IN  /\ message' = io.message
         /\ stdout' = io.stdout
         /\ emitted' = io.emitted
         /\ pc' = to.pc /\ pi' = to.pi /\ ci' = to.ci /\ ri' = to.ri
  /\ UNCHANGED << env_vars, faults_left, profile_list, current_profile, regions,
                  checks_to_exclude, config_location, output_file, file, writes,
                  rds_data, queries, raised >>

\* run_sweeper after run_checks returned: the file, the closing lines, exit(0)
run_sweeper_finish ==
  /\ pc = "finish"
  /\ file' = IF output_file THEN message ELSE file
  /\ writes' = IF output_file THEN writes + 1 ELSE writes
  /\ LET io == outputs(IO(0), << Text("stars", "run_sweeper", ""),
                                 Text("sweeper-complete", "run_sweeper", "") >>)
     IN  /\ message' = io.message
         /\ stdout' = io.stdout
         /\ emitted' = io.emitted
  /\ pc' = "done"
  /\ UNCHANGED << env_vars, faults_left, profile_list, current_profile, regions,
                  checks_to_exclude, config_location, output_file, pi, ci, ri,
                  rds_data, queries, raised >>

(***************************************************************************)
(* Inputs.                                                                 *)
(***************************************************************************)
ProfileA == << "a" >>
ProfileB == << "b" >>

\* a region that self.regions does not list
OtherRegion == "cn-north-1"

AttrValues == { "absent", "empty", "linked" }

NoEbs == [ Ebs |-> FALSE, HasSnapshotId |-> FALSE, SnapshotId |-> 0 ]
NoSnapshotId == [ Ebs |-> TRUE, HasSnapshotId |-> FALSE, SnapshotId |-> 0 ]
SnapshotMapping(id) == [ Ebs |-> TRUE, HasSnapshotId |-> TRUE, SnapshotId |-> id ]

NoMappings == [ HasMappings |-> FALSE, BlockDeviceMappings |-> <<>> ]
Image(ms) == [ HasMappings |-> TRUE, BlockDeviceMappings |-> ms ]

Stack(id) == [ StackId |-> id, counts |-> << 0, 1, 2, 1, 0, 3 >> ]

DbSnapshot(id, inst) ==
  [ DBSnapshotIdentifier |-> id, DBInstanceIdentifier |-> inst ]
DbInstance(inst) == [ DBInstanceIdentifier |-> inst ]

EmptyWorld ==
  [ elbs |-> <<>>, volumes |-> <<>>, snapshots |-> <<>>, images |-> <<>>,
    addresses |-> <<>>, environments |-> <<>>, stacks |-> <<>>,
    rds_snapshots |-> << <<>> >>, rds_instances |-> << <<>> >> ]

\* a provider with something of everything
SampleWorld ==
  [ elbs |-> << [ LoadBalancerName |-> 1, Instances |-> "empty" ],
                [ LoadBalancerName |-> 2, Instances |-> "linked" ] >>,
    volumes |-> << [ VolumeId |-> 1, Attachments |-> "linked" ],
                   [ VolumeId |-> 2, Attachments |-> "empty" ] >>,
    snapshots |-> << 1, 2 >>,
    images |-> << Image(<< NoEbs, SnapshotMapping(2) >>) >>,
    addresses |-> << [ PublicIp |-> 1, InstanceId |-> "absent" ],
                     [ PublicIp |-> 2, InstanceId |-> "linked" ] >>,
    environments |-> << 1 >>,
    stacks |-> << Stack(1) >>,
    rds_snapshots |-> << << DbSnapshot(1, 1), DbSnapshot(2, 2) >> >>,
    rds_instances |-> << << DbInstance(1) >> >> ]

ElbLists ==
  { [ i \in DOMAIN a |-> [ LoadBalancerName |-> i, Instances |-> a[i] ] ] :
      a \in SeqsUpTo(AttrValues, MaxItems) }
VolumeLists ==
  { [ i \in DOMAIN a |-> [ VolumeId |-> i, Attachments |-> a[i] ] ] :
      a \in SeqsUpTo(AttrValues, MaxItems) }
AddressLists ==
  { [ i \in DOMAIN a |-> [ PublicIp |-> i, InstanceId |-> a[i] ] ] :
      a \in SeqsUpTo(AttrValues, MaxItems) }

Mappings == { NoEbs, NoSnapshotId, SnapshotMapping(1), SnapshotMapping(2) }
Images == { NoMappings } \cup { Image(ms) : ms \in SeqsUpTo(Mappings, MaxItems) }
ImageLists == { <<>> } \cup { << x >> : x \in Images }
                \cup { << x, y >> : x \in Images, y \in Images }
SnapshotLists == { <<>>, << 1 >>, << 2, 1 >> }

EnvironmentLists == { [ i \in 1..k |-> i ] : k \in 0..MaxItems }
StackLists == { [ i \in 1..k |-> Stack(i) ] : k \in 0..MaxItems }

DbSnapshotPages ==
  { <<>>, << DbSnapshot(1, 1) >>, << DbSnapshot(2, 2) >>,
    << DbSnapshot(3, 2), DbSnapshot(4, 1) >> }
DbInstancePages == { <<>>, << DbInstance(1) >>, << DbInstance(2), DbInstance(1) >> }
PagesOf(P) == { << x >> : x \in P } \cup { << x, y >> : x \in P, y \in P }

\* the provider data that exercises check number c alone
WorldsFor(c) ==
  IF c = 1 THEN { [ EmptyWorld EXCEPT !.elbs = x ] : x \in ElbLists }
  ELSE IF c = 2 THEN { [ EmptyWorld EXCEPT !.volumes = x ] : x \in VolumeLists }
  ELSE IF c = 3 THEN { [ EmptyWorld EXCEPT !.snapshots = x, !.images = y ] :
                         x \in SnapshotLists, y \in ImageLists }
  ELSE IF c = 4 THEN { [ EmptyWorld EXCEPT !.addresses = x ] : x \in AddressLists }
  ELSE IF c = 5 THEN { [ EmptyWorld EXCEPT !.environments = x ] :
                         x \in EnvironmentLists }
  ELSE IF c = 6 THEN { [ EmptyWorld EXCEPT !.stacks = x ] : x \in StackLists }
  ELSE { [ EmptyWorld EXCEPT !.rds_snapshots = x, !.rds_instances = y ] :
           x \in PagesOf(DbSnapshotPages), y \in PagesOf(DbInstancePages) }

AllBut(c) == SelectSeq(CheckNames, LAMBDA name : name # CheckNames[c])

\* the object as __init__ leaves it before its function calls
Constructed ==
  /\ profile_list = <<>>
  /\ current_profile = <<>>
  /\ regions = DefaultRegions
  /\ checks_to_exclude = <<>>
  /\ config_location = DefaultLocation
  /\ output_file = FALSE
  /\ message = <<>>
  /\ stdout = <<>>
  /\ file = <<>>
  /\ writes = 0
  /\ pc = "set_config_file"
  /\ pi = 0 /\ ci = 0 /\ ri = 0
  /\ rds_data = RdsNone
  /\ emitted = <<>>
  /\ queries = <<>>
  /\ raised = <<>>

\* what the configuration files hold
Configs ==
  [ profiles : { <<>>, << ProfileA, ProfileB >> },
    regions_to_exclude : { <<>>, << DefaultRegions[1], OtherRegion >> },
    checks_to_exclude :
      { <<>>,
        << "opsworks", "ebs-volumes", "ebs-snapshots", "elb",
           "elastic-beanstalk" >> } ]

\* the default file that is read when the file named by -c cannot be opened
FallbackConfig ==
  [ profiles |-> << ProfileA, ProfileB >>,
    regions_to_exclude |-> << OtherRegion >>,
    checks_to_exclude |-> << "ebs-volumes", "ebs-snapshots", "ec2-eips",
                             "elastic-beanstalk", "opsworks" >> ]

FilesWith(default, custom) ==
  [ l \in { DefaultLocation, "custom.yml" } |->
      IF l = DefaultLocation THEN default ELSE custom ]

\* command lines and configuration files, against a provider with SampleWorld:
\* with credentials in place, or with neither credentials nor profiles
Init ==
  /\ Constructed
  /\ \E c \in { NoArg, "custom.yml" } :
       /\ args \in [ c : { c },
                     p : { NoArg, ProfileA, ProfileB \o << "," >> \o ProfileA },
                     o : { NoArg, "out.txt" } ]
       /\ IF c = NoArg
            THEN /\ files \in { FilesWith("ok", "missing"),
                                FilesWith("missing", "missing") }
                 /\ params \in Configs
            ELSE /\ files \in { FilesWith("ok", "missing"),
                                FilesWith("ok", "malformed"),
                                FilesWith("malformed", "missing") }
                 /\ params = FallbackConfig
  /\ environ_set \in BOOLEAN
  /\ creds_file = environ_set
  /\ ~environ_set => params.profiles = <<>>
  /\ unknown_profiles \in { {}, { ProfileA } }
  /\ world = SampleWorld
  /\ faults_left = MaxFaults

\* one profile, one region, one check, against every small provider response
InitData ==
  /\ Constructed
  /\ files = [ l \in { DefaultLocation, "custom.yml" } |->
                 IF l = DefaultLocation THEN "ok" ELSE "missing" ]
  /\ args \in [ c : { NoArg }, p : { NoArg }, o : { NoArg, "out.txt" } ]
  /\ \E c \in DOMAIN CheckNames :
       /\ params = [ profiles |-> << ProfileA >>,
                     regions_to_exclude |-> Tail(DefaultRegions),
                     checks_to_exclude |-> AllBut(c) ]
       /\ world \in WorldsFor(c)
  /\ environ_set = TRUE
  /\ creds_file = TRUE
  /\ unknown_profiles = {}
  /\ faults_left = 0

Next ==
  \/ set_config_file
  \/ set_output
  \/ load_file
  \/ set_profile
  \/ run_sweeper
  \/ run_checks
  \/ check_elbs
  \/ check_ebs_volumes
  \/ check_snapshots
  \/ check_eips
  \/ check_beanstalk_environments
  \/ check_opsworks
  \/ check_rds_snapshots
  \/ run_sweeper_finish

Spec == Init /\ [][Next]_vars

SpecData == InitData /\ [][Next]_vars


(***************************************************************************)
(* Reading the histories and the report.                                   *)
(***************************************************************************)
\* the report while the run is going: the buffer, or the screen
Report == IF output_file THEN message ELSE stdout

\* the report a completed run leaves: the file, or the screen
FinalReport == IF output_file THEN file ELSE stdout

RegionIndex(r) == CHOOSE j \in DOMAIN regions : regions[j] = r

CheckIndex(name) == CHOOSE c \in DOMAIN CheckNames : CheckNames[c] = name

\* a call of check name was issued for the i-th profile in region r
Queried(i, name, r) ==
  \E q \in DOMAIN queries :
    queries[q].i = i /\ queries[q].c = name /\ queries[q].r = r

ClientErrors == { k \in DOMAIN raised : raised[k].exc = "ClientError" }

ProfileErrors == { k \in DOMAIN raised : raised[k].exc = "ProfileNotFound" }

\* the lines of one iteration of a region loop: from its banner at index b up
\* to the next banner, profile heading or closing line
BlockEnd(rep, b) ==
  LET stops == { j \in (b + 1)..Len(rep) :
                   rep[j].k \in { "banner", "sweeping", "stars" } }
  IN  IF stops = {} THEN Len(rep)
      ELSE (CHOOSE j \in stops : \A l \in stops : j <= l) - 1

Block(rep, b) == SubSeq(rep, b, BlockEnd(rep, b))

Banners(rep, name) ==
  { b \in DOMAIN rep : rep[b].k = "banner" /\ rep[b].c = name }

\* the resource names one iteration reported, in order
ItemNames(block) ==
  LET items == SelectSeq(block, LAMBDA l : l.k = "item")
  IN  [ j \in DOMAIN items |-> items[j].n ]

Completed(block) == \E j \in DOMAIN block : block[j].k = "complete"

\* the lines of the i-th profile: from its heading to the next heading
Headings(rep) == { h \in DOMAIN rep : rep[h].k = "sweeping" }

Heading(rep, i) ==
  CHOOSE h \in Headings(rep) :
    Cardinality({ j \in Headings(rep) : j <= h }) = i

Section(rep, i) ==
  LET stops == { j \in (Heading(rep, i) + 1)..Len(rep) :
                   rep[j].k \in { "sweeping", "stars" } }
  IN  IF stops = {} THEN SubSeq(rep, Heading(rep, i) + 1, Len(rep))
      ELSE SubSeq(rep, Heading(rep, i) + 1,
                  (CHOOSE j \in stops : \A l \in stops : j <= l) - 1)

\* the banner and completion lines of a section, as <<kind, check, region>>
Marks(sec) ==
  LET marks == SelectSeq(sec, LAMBDA l : l.k \in { "banner", "complete" })
  IN  [ j \in DOMAIN marks |-> << marks[j].k, marks[j].c, marks[j].r >> ]

Count(marks, kind, name, r) ==
  Cardinality({ j \in DOMAIN marks : marks[j] = << kind, name, r >> })

(***************************************************************************)
(* C1                                                                      *)
(***************************************************************************)
\* C1 as stated: when a query of a check raises ClientError in region r, the
\* check still queries every region that follows r for that profile.
C1_LaterRegionsStillQueried ==
  pc = "done" =>
    \A k \in ClientErrors :
      \A j \in DOMAIN regions :
        j > RegionIndex(raised[k].r) =>
          Queried(raised[k].i, raised[k].c, regions[j])

\* C1 amended: a ClientError raised by a query of a check in region r is caught
\* by that check and handed to the output sink, and the check ends there: it
\* queries no region that follows r for that profile.  On the console the error
\* and the no-access line are printed and the run goes on with the next enabled
\* check of the profile.
C1_ClientErrorEndsTheCheck ==
  \A k \in ClientErrors :
    LET e == raised[k]
    IN  /\ \A j \in DOMAIN regions :
             j > RegionIndex(e.r) => ~Queried(e.i, e.c, regions[j])
        /\ In(ErrObject(e.c, e.r), emitted)
        /\ ~output_file =>
             /\ In(ToStr(ErrObject(e.c, e.r)), stdout)
             /\ In(Text("no-access", e.c, e.r), stdout)
             /\ pc = "done" =>
                  \A c \in (CheckIndex(e.c) + 1)..Len(CheckNames) :
                    Enabled(c) => Queried(e.i, CheckNames[c], regions[1])

C1_Witness ==
  /\ pc = "done"
  /\ ~output_file
  /\ Len(regions) >= 2
  /\ \E k \in ClientErrors :
       /\ raised[k].r = regions[1]
       /\ raised[k].c = "ec2-eips"
       /\ Queried(raised[k].i, "rds-snapshots", regions[2])

(***************************************************************************)
(* C2                                                                      *)
(***************************************************************************)
\* C2: in both output modes an access-denied error is caught, recorded as a
\* report line through the sink, and the run goes on; the error object handed
\* to the sink never raises.
C2_AccessDeniedIsRecorded ==
  /\ \A k \in DOMAIN raised : raised[k].where # "output"
  /\ \A k \in ClientErrors :
       /\ In(ToStr(ErrObject(raised[k].c, raised[k].r)), Report)
       /\ pc # "crashed"

(***************************************************************************)
(* C3                                                                      *)
(***************************************************************************)
\* C3: with no profile on the command line or in the configuration file and
\* both credential variables set, every enabled check queries every region
\* that is not excluded, with a client built without a profile, before the run
\* completes.
C3_AmbientCredentialsSweep ==
  (pc = "done" /\ args.p = NoArg /\ params.profiles = <<>> /\ environ_set) =>
    \A c \in DOMAIN CheckNames, j \in DOMAIN regions :
      Enabled(c) =>
        \E q \in DOMAIN queries :
          /\ queries[q].p = <<>>
          /\ queries[q].c = CheckNames[c]
          /\ queries[q].r = regions[j]

(***************************************************************************)
(* C4                                                                      *)
(***************************************************************************)
\* the linking attribute of the items a check's query returns, by item name
Linking(name) ==
  IF name = "elb"
    THEN [ j \in DOMAIN world.elbs |-> world.elbs[j].Instances ]
  ELSE IF name = "ebs-volumes"
    THEN [ j \in DOMAIN world.volumes |-> world.volumes[j].Attachments ]
  ELSE [ j \in DOMAIN world.addresses |-> world.addresses[j].InstanceId ]

Names(name) ==
  IF name = "elb"
    THEN [ j \in DOMAIN world.elbs |-> world.elbs[j].LoadBalancerName ]
  ELSE IF name = "ebs-volumes"
    THEN [ j \in DOMAIN world.volumes |-> world.volumes[j].VolumeId ]
  ELSE [ j \in DOMAIN world.addresses |-> world.addresses[j].PublicIp ]

\* the names at the positions of S, in list order
NamesAt(name, S) ==
  LET RECURSIVE pick(_)
      pick(j) ==
        IF j > Len(Names(name)) THEN <<>>
        ELSE (IF j \in S THEN << Names(name)[j] >> ELSE <<>>) \o pick(j + 1)
  IN  pick(1)

LinkingChecks == { "elb", "ebs-volumes", "ec2-eips" }

NoProviderError == ClientErrors = {} /\ ProfileErrors = {}

\* C4 as stated: an item is reported if and only if its linking attribute is
\* absent or empty.
C4_ReportedIffAbsentOrEmpty ==
  NoProviderError =>
    \A name \in LinkingChecks :
      \A b \in Banners(Report, name) :
        ItemNames(Block(Report, b)) =
          NamesAt(name, { j \in DOMAIN Linking(name) :
                            Linking(name)[j] \in { "absent", "empty" } })

\* C4 amended: a load balancer or volume is reported if and only if its
\* attribute is present and empty and no item before it in the response lacks
\* the attribute; an item that lacks it raises KeyError, which ends the run
\* before the region's completion line.  A static address is reported if and
\* only if it has no InstanceId key; a present InstanceId, empty or not, is not
\* reported.  No item with a present non-empty attribute is reported.
C4_ReportedIffUnlinked ==
  NoProviderError =>
    \A name \in LinkingChecks :
      \A b \in Banners(Report, name) :
        LET attr == Linking(name)
            block == Block(Report, b)
            lacking == { j \in DOMAIN attr : attr[j] = "absent" }
        IN  IF name = "ec2-eips"
              THEN /\ ItemNames(block) = NamesAt(name, lacking)
                   /\ Completed(block)
              ELSE /\ ItemNames(block) =
                        NamesAt(name, { j \in DOMAIN attr :
                                          /\ attr[j] = "empty"
                                          /\ \A l \in lacking : l > j })
                   /\ Completed(block) <=> lacking = {}
                   /\ lacking # {} =>
                        /\ pc = "crashed"
                        /\ raised[Len(raised)].exc = "KeyError"

C4_Witness ==
  /\ pc = "done"
  /\ \E b \in Banners(Report, "ec2-eips") :
       /\ Len(world.addresses) = 2
       /\ world.addresses[1].InstanceId = "empty"
       /\ world.addresses[2].InstanceId = "absent"
       /\ ItemNames(Block(Report, b)) = << world.addresses[2].PublicIp >>

(***************************************************************************)
(* C5                                                                      *)
(***************************************************************************)
CallsOf(op) == Cardinality({ q \in DOMAIN queries : queries[q].op = op })

\* C5: get_data calls the listing function once per page, with the previous
\* page's Marker, and returns the items of all pages in page order, for the
\* snapshot list and for the instance list.
C5_GetDataAccumulatesPages ==
  (rds_data.ran /\ NoProviderError) =>
    /\ rds_data.have_snapshots
    /\ rds_data.snapshots = Flatten(world.rds_snapshots)
    /\ rds_data.have_instances
    /\ rds_data.instances = Flatten(world.rds_instances)
    /\ CallsOf("describe_db_snapshots") = Len(world.rds_snapshots)
    /\ CallsOf("describe_db_instances") = Len(world.rds_instances)

(***************************************************************************)
(* C6                                                                      *)
(***************************************************************************)
\* some mapping of some image carries the snapshot's id
Referenced(id) ==
  \E x \in DOMAIN world.images :
    /\ world.images[x].HasMappings
    /\ \E y \in DOMAIN world.images[x].BlockDeviceMappings :
         LET mapping == world.images[x].BlockDeviceMappings[y]
         IN  mapping.Ebs /\ mapping.HasSnapshotId /\ mapping.SnapshotId = id

Unreferenced == { j \in DOMAIN world.snapshots : ~Referenced(world.snapshots[j]) }

\* C6: the number in "There are N snapshots to remove" is the number of
\* snapshots that no mapping of any image references, wherever the matching
\* mapping and image stand; with -o the listed ids are those snapshots.
C6_CountsUnreferencedSnapshots ==
  \A b \in Banners(Report, "ebs-snapshots") :
    LET block == Block(Report, b)
        counts == SelectSeq(block, LAMBDA l : l.k = "count")
        snaps == SelectSeq(block, LAMBDA l : l.k = "snap")
    IN  /\ NoProviderError => Len(counts) = 1
        /\ \A j \in DOMAIN counts : counts[j].n = Cardinality(Unreferenced)
        /\ (output_file /\ counts # <<>>) =>
             /\ Len(snaps) = Cardinality(Unreferenced)
             /\ \A j \in DOMAIN snaps : ~Referenced(snaps[j].n)

C6_Witness ==
  /\ pc = "done"
  /\ world.snapshots = << 2, 1 >>
  /\ world.images = << Image(<< NoEbs, SnapshotMapping(1) >>),
                       Image(<< SnapshotMapping(2), NoSnapshotId >>) >>
  /\ \E j \in DOMAIN Report : Report[j].k = "count" /\ Report[j].n = 0

(***************************************************************************)
(* C7                                                                      *)
(***************************************************************************)
\* C7 as stated: in a completed run the report has exactly one banner and one
\* completion line for every profile, enabled check and region.
C7_OneBannerOneCompletion ==
  pc = "done" =>
    \A i \in DOMAIN profile_list :
      LET marks == Marks(Section(FinalReport, i))
      IN  \A c \in DOMAIN CheckNames, j \in DOMAIN regions :
            Enabled(c) =>
              /\ Count(marks, "banner", CheckNames[c], regions[j]) = 1
              /\ Count(marks, "complete", CheckNames[c], regions[j]) = 1

\* a query of check c raised ClientError for the i-th profile, or the i-th
\* profile could not be found
Interrupted(i, c) ==
  \/ \E k \in ClientErrors : raised[k].i = i /\ raised[k].c = CheckNames[c]
  \/ \E k \in ProfileErrors : raised[k].i = i

\* C7 amended: in a completed run, for every profile, enabled check and region,
\* the report has at most one banner and at most one completion line of that
\* check for that region, and exactly one of each unless a query of that check
\* raised ClientError for that profile or the profile could not be found.
C7_OneBannerOneCompletionUnlessInterrupted ==
  pc = "done" =>
    \A i \in DOMAIN profile_list :
      LET marks == Marks(Section(FinalReport, i))
      IN  \A c \in DOMAIN CheckNames, j \in DOMAIN regions :
            Enabled(c) =>
              LET banners == Count(marks, "banner", CheckNames[c], regions[j])
                  completions == Count(marks, "complete", CheckNames[c], regions[j])
              IN  /\ banners <= 1
                  /\ completions <= 1
                  /\ ~Interrupted(i, c) => banners = 1 /\ completions = 1

C7_Witness ==
  /\ pc = "done"
  /\ Len(profile_list) = 2
  /\ Len(regions) >= 2
  /\ checks_to_exclude = <<>>
  /\ ClientErrors # {}
  /\ \A j \in DOMAIN regions :
       Count(Marks(Section(FinalReport, 2)), "complete", "opsworks", regions[j]) = 1

(***************************************************************************)
(* C8                                                                      *)
(***************************************************************************)
\* C8: with -o the file is written once, at the end of the run and not while
\* checks are running, and it holds every line passed to the output sink during
\* the run, the closing lines included, in emission order.
C8_FileHoldsTheWholeReport ==
  /\ pc # "done" => writes = 0
  /\ (pc = "done" /\ output_file) => writes = 1 /\ file = emitted

(***************************************************************************)
(* C9                                                                      *)
(***************************************************************************)
\* C9: when ProfileNotFound is raised for a profile, the could-not-be-found
\* line is reported, no later check of that profile issues a query, the
\* exception does not end the run, and in a completed run every profile whose
\* own cycle raised nothing has queried every region with every enabled check.
C9_ProfileNotFoundSkipsOnlyThatProfile ==
  /\ \A k \in ProfileErrors :
       LET e == raised[k]
       IN  /\ In(Line("profile-not-found", "run_checks", "", 0, 0,
                      profile_list[e.i]), Report)
           /\ \A c \in (CheckIndex(e.c) + 1)..Len(CheckNames), j \in DOMAIN regions :
                ~Queried(e.i, CheckNames[c], regions[j])
           /\ k = Len(raised) => pc \in { "run_checks", "check", "finish", "done" }
  /\ pc = "done" =>
       \A i \in DOMAIN profile_list :
         (\A k \in DOMAIN raised : raised[k].i # i) =>
           \A c \in DOMAIN CheckNames, j \in DOMAIN regions :
             Enabled(c) => Queried(i, CheckNames[c], regions[j])

C9_Witness ==
  /\ pc = "done"
  /\ Len(profile_list) = 2
  /\ \E k \in ProfileErrors : raised[k].i = 1
  /\ checks_to_exclude = <<>>
  /\ \A c \in DOMAIN CheckNames, j \in DOMAIN regions :
       Queried(2, CheckNames[c], regions[j])

(***************************************************************************)
(* C10                                                                     *)
(***************************************************************************)
\* C10: no query is issued and no line is produced by a check named in the
\* file's checks_to_exclude, and no query is issued against a region named in
\* its regions_to_exclude.
C10_ExclusionsAreAbsolute ==
  /\ { queries[q].c : q \in DOMAIN queries } \cap Range(params.checks_to_exclude) = {}
  /\ { queries[q].r : q \in DOMAIN queries } \cap Range(params.regions_to_exclude) = {}
  /\ { emitted[l].c : l \in DOMAIN emitted } \cap Range(params.checks_to_exclude) = {}

C10_Witness ==
  /\ pc = "done"
  /\ In(DefaultRegions[1], params.regions_to_exclude)
  /\ In("elb", params.checks_to_exclude)
  /\ Len(profile_list) = 2
  /\ \A i \in DOMAIN profile_list : Queried(i, "ec2-eips", DefaultRegions[2])

(***************************************************************************)
(* C11                                                                     *)
(***************************************************************************)
\* set_profile has returned without exiting
ProfilesSet ==
  pc \in { "run_sweeper", "run_checks", "check", "finish", "done", "crashed" }

\* the names of a list written with commas between them
RECURSIVE Joined(_)
Joined(l) ==
  IF l = <<>> THEN <<>>
  ELSE IF Len(l) = 1 THEN l[1]
  ELSE l[1] \o << "," >> \o Joined(Tail(l))

\* the order of run_checks: by profile, and within a profile by check
Before(q1, q2) ==
  \/ q1.i < q2.i
  \/ q1.i = q2.i /\ CheckIndex(q1.c) <= CheckIndex(q2.c)

\* C11: with -p p1,p2 the profile list of the run is exactly the names
\* between the commas, in the order given, whatever the configuration file
\* lists, and a warning is printed when the file listed profiles; every query
\* is issued under the profile at its place in that list; along the sequence
\* of queries the profile never goes back and, within a profile, the check
\* never goes back in the order elb, ebs-volumes, ebs-snapshots, ec2-eips,
\* elastic-beanstalk, opsworks, rds-snapshots; and a completed run has one
\* heading per profile and, for every profile whose cycle raised nothing, a
\* query of every enabled check in every region.
C11_CommandLineProfilesInOrder ==
  (args.p # NoArg /\ ProfilesSet) =>
    /\ Joined(profile_list) = args.p
    /\ \A i \in DOMAIN profile_list : ~In(",", profile_list[i])
    /\ params.profiles # <<>> => In(Text("WARN-override", "", ""), stdout)
    /\ \A q \in DOMAIN queries :
         /\ queries[q].i \in DOMAIN profile_list
         /\ queries[q].p = profile_list[queries[q].i]
    /\ \A q \in 1..(Len(queries) - 1) : Before(queries[q], queries[q + 1])
    /\ pc = "done" =>
         /\ Cardinality(Headings(emitted)) = Len(profile_list)
         /\ \A i \in DOMAIN profile_list :
              (\A k \in DOMAIN raised : raised[k].i # i) =>
                \A c \in DOMAIN CheckNames, j \in DOMAIN regions :
                  Enabled(c) => Queried(i, CheckNames[c], regions[j])

C11_Witness ==
  /\ pc = "done"
  /\ args.p # NoArg
  /\ args.p = ProfileB \o << "," >> \o ProfileA
  /\ params.profiles = << ProfileA, ProfileB >>
  /\ profile_list = << ProfileB, ProfileA >>
  /\ raised = <<>>
  /\ checks_to_exclude = <<>>
  /\ \A i \in 1..2, c \in DOMAIN CheckNames, j \in DOMAIN regions :
       Queried(i, CheckNames[c], regions[j])
  /\ \E q \in DOMAIN queries :
       queries[q].i = 1 /\ queries[q].p = ProfileB /\ queries[q].c = "rds-snapshots"

====
